---- MODULE Spec2Model ----
(***************************************************************************)
(* ut181a command-line front end (src/src/main.cpp): argument parsing with *)
(* getopt_long, the SIGINT handler and quit_flag, session open/close and   *)
(* the mode dispatch of Program::Run.                                      *)
(*                                                                         *)
(* C strings are sequences of one-character strings, so that getopt_long   *)
(* and atoi are computed on the characters as the library does.            *)
(***************************************************************************)
EXTENDS Integers, Sequences, FiniteSets, TLC

VARIABLES
    argv,            \* argv[1..argc-1] as passed to main
    pc,              \* position of the main flow inside Program::Main
    m_args,          \* Program::m_args
    g_debug,         \* debug.h global, assigned in Main
    quit_flag,       \* Program::quit_flag
    handler,         \* TRUE once signal(SIGINT, SignalHandler) has run
    rc,              \* the value Main returns (meaningful when pc = "exit")
    i,               \* loop index of the Receive loop in Run
    session,         \* Device session state: "none", "open", "closed"
    hist,            \* history of the main flow: Device calls and returns, reads of quit_flag
    out,             \* stdout
    err              \* stderr

vars == <<argv, pc, m_args, g_debug, quit_flag, handler, rc, i,
          session, hist, out, err>>

----------------------------------------------------------------------------
(* Bounds of the model *)

\* longest argument vector explored (argc - 1)
MaxArgs == 3

----------------------------------------------------------------------------
(* Program constants *)

SIGINT == 2
no_argument == 0
required_argument == 1

\* the value of a null pointer and of a char* pointing at string s
NULL == [null |-> TRUE]
Ptr(s) == [null |-> FALSE, str |-> s]

\* getopt_long's return at the end of the options (-1 in C)
EndOfOptions == "-1"

short_options == <<"h", "v", "d", ":", "s", ":", "m", "l">>

long_options ==
    << [name |-> <<"h","e","l","p">>,             has_arg |-> no_argument,       val |-> "h"],
       [name |-> <<"v","e","r","s","i","o","n">>, has_arg |-> no_argument,       val |-> "v"],
       [name |-> <<"d","e","b","u","g">>,         has_arg |-> required_argument, val |-> "d"],
       [name |-> <<"s","e","r","i","a","l">>,     has_arg |-> required_argument, val |-> "s"],
       [name |-> <<"m","o","n","i","t","o","r">>, has_arg |-> required_argument, val |-> "m"],
       [name |-> <<"l","i","s","t">>,             has_arg |-> required_argument, val |-> "l"] >>

help_msg == <<"help_msg">>
version_info == <<"version_info">>

----------------------------------------------------------------------------
(* atoi *)

DigitVal == [c \in {"0","1","2","3","4","5","6","7","8","9"} |->
               CASE c = "0" -> 0 [] c = "1" -> 1 [] c = "2" -> 2 [] c = "3" -> 3
                 [] c = "4" -> 4 [] c = "5" -> 5 [] c = "6" -> 6 [] c = "7" -> 7
                 [] c = "8" -> 8 [] c = "9" -> 9]

IsDigit(c) == c \in DOMAIN DigitVal

IsSpace(c) == c \in {" ", "\t", "\n", "\r"}

RECURSIVE AtoiDigits(_, _, _)
AtoiDigits(s, k, acc) ==
    IF k > Len(s) \/ ~IsDigit(s[k]) THEN acc
    ELSE AtoiDigits(s, k + 1, acc * 10 + DigitVal[s[k]])

RECURSIVE AtoiSkip(_, _)
AtoiSkip(s, k) == IF k <= Len(s) /\ IsSpace(s[k]) THEN AtoiSkip(s, k + 1) ELSE k

\* a conversion that knows no sign: digits only, 0 otherwise
atoi_unsigned(s) == AtoiDigits(s, AtoiSkip(s, 1), 0)

\* atoi(3): optional white space, optional sign, then the longest run of
\* decimal digits; 0 when there is none.
atoi(s) ==
    LET k == AtoiSkip(s, 1) IN
    IF k <= Len(s) /\ s[k] = "-" THEN 0 - AtoiDigits(s, k + 1, 0)
    ELSE IF k <= Len(s) /\ s[k] = "+" THEN AtoiDigits(s, k + 1, 0)
    ELSE AtoiDigits(s, k, 0)

----------------------------------------------------------------------------
(* getopt_long (GNU, POSIXLY_CORRECT unset): one call, from the scan state *)
(* g = [optind, nextchar, nonopts]. optind indexes argv[1..]; nextchar is  *)
(* the position inside a cluster of short options (0: between elements);   *)
(* nonopts are the non-options skipped so far, which the permutation moves *)
(* behind the options in their original order.                             *)

IsPrefix(p, s) == Len(p) <= Len(s) /\ SubSeq(s, 1, Len(p)) = p

IndexOf(c, s) ==
    IF \E k \in 1..Len(s) : s[k] = c
    THEN CHOOSE k \in 1..Len(s) : s[k] = c /\ \A j \in 1..(k - 1) : s[j] # c
    ELSE 0

\* an element that getopt scans as options: starts with '-' and is not "-"
IsOptionElement(t) == Len(t) > 1 /\ t[1] = "-"

NextElement(g) == [g EXCEPT !.optind = @ + 1, !.nextchar = 0]

ShortOption(av, g) ==
    LET t    == av[g.optind]
        ch   == t[g.nextchar]
        last == g.nextchar = Len(t)
        pos  == IF ch = ":" THEN 0 ELSE IndexOf(ch, short_options)
        adv  == IF last THEN NextElement(g) ELSE [g EXCEPT !.nextchar = @ + 1]
    IN  IF pos = 0
        THEN [c |-> "?", optarg |-> NULL, g |-> adv,
              msg |-> << <<"invalid option", ch>> >>]
        ELSE IF pos < Len(short_options) /\ short_options[pos + 1] = ":"
        THEN IF ~last
             THEN [c |-> ch, optarg |-> Ptr(SubSeq(t, g.nextchar + 1, Len(t))),
                   g |-> NextElement(g), msg |-> <<>>]
             ELSE IF g.optind + 1 > Len(av)
             THEN [c |-> "?", optarg |-> NULL, g |-> NextElement(g),
                   msg |-> << <<"option requires an argument", ch>> >>]
             ELSE [c |-> ch, optarg |-> Ptr(av[g.optind + 1]),
                   g |-> NextElement(NextElement(g)), msg |-> <<>>]
        ELSE [c |-> ch, optarg |-> NULL, g |-> adv, msg |-> <<>>]

LongOption(av, g) ==
    LET t     == av[g.optind]
        eq    == IndexOf("=", t)
        name  == SubSeq(t, 3, IF eq = 0 THEN Len(t) ELSE eq - 1)
        all   == 1..Len(long_options)
        exact == {n \in all : long_options[n].name = name}
        pref  == {n \in all : IsPrefix(name, long_options[n].name)}
        same  == \A a, b \in pref : /\ long_options[a].has_arg = long_options[b].has_arg
                                     /\ long_options[a].val = long_options[b].val
        found == IF exact # {} THEN exact ELSE pref
        o     == long_options[CHOOSE n \in found : TRUE]
    IN  IF exact = {} /\ pref = {}
        THEN [c |-> "?", optarg |-> NULL, g |-> NextElement(g),
              msg |-> << <<"unrecognized option", t>> >>]
        ELSE IF exact = {} /\ ~same
        THEN [c |-> "?", optarg |-> NULL, g |-> NextElement(g),
              msg |-> << <<"option is ambiguous", t>> >>]
        ELSE IF eq # 0
        THEN IF o.has_arg # no_argument
             THEN [c |-> o.val, optarg |-> Ptr(SubSeq(t, eq + 1, Len(t))),
                   g |-> NextElement(g), msg |-> <<>>]
             ELSE [c |-> "?", optarg |-> NULL, g |-> NextElement(g),
                   msg |-> << <<"option doesn't allow an argument", o.name>> >>]
        ELSE IF o.has_arg = required_argument
        THEN IF g.optind + 1 > Len(av)
             THEN [c |-> "?", optarg |-> NULL, g |-> NextElement(g),
                   msg |-> << <<"option requires an argument", o.name>> >>]
             ELSE [c |-> o.val, optarg |-> Ptr(av[g.optind + 1]),
                   g |-> NextElement(NextElement(g)), msg |-> <<>>]
        ELSE [c |-> o.val, optarg |-> NULL, g |-> NextElement(g), msg |-> <<>>]

RECURSIVE getopt_long(_, _)
getopt_long(av, g) ==
    IF g.nextchar # 0 THEN ShortOption(av, g)
    ELSE IF g.optind > Len(av)
    THEN [c |-> EndOfOptions, optarg |-> NULL, g |-> g, msg |-> <<>>]
    ELSE LET t == av[g.optind] IN
         IF t = <<"-", "-">>
         THEN [c |-> EndOfOptions, optarg |-> NULL, g |-> NextElement(g), msg |-> <<>>]
         ELSE IF ~IsOptionElement(t)
         THEN getopt_long(av, [NextElement(g) EXCEPT !.nonopts = Append(@, t)])
         ELSE IF t[2] = "-" THEN LongOption(av, g)
         ELSE ShortOption(av, [g EXCEPT !.nextchar = 2])

\* argv[optind..argc-1] after the scan: the skipped non-options, then the rest
Remaining(av, g) == g.nonopts \o SubSeq(av, g.optind, Len(av))

----------------------------------------------------------------------------
(* Program::Help, Program::Version: print and return the status *)

\* Help() that prints but reports success
Help_returns0(o) == [rc |-> 0, out |-> Append(o, help_msg)]

Help(o) == [rc |-> 1, out |-> Append(o, help_msg)]

\* Version() that prints but reports success
Version_returns0(o) == [rc |-> 0, out |-> Append(o, version_info)]

Version(o) == [rc |-> 2, out |-> Append(o, version_info)]

----------------------------------------------------------------------------
(* Program::ParseArguments: the while(1) loop around getopt_long, then the *)
(* non-option items. a is m_args, o stdout, e stderr (getopt_long prints   *)
(* its own diagnostics there, opterr being left at 1).                     *)
(* case 0 of the switch is unreachable: every long option has flag 0 and a *)
(* non-zero val.                                                           *)

\* case '?' and default written as "return Help();"
InvalidOption_returns_Help(a, o, e) ==
    [rc |-> Help(o).rc, args |-> a, out |-> Help(o).out, err |-> e]

\* ParseArguments, case '?' and default: Help(); return -1;
InvalidOption(a, o, e) == [rc |-> -1, args |-> a, out |-> Help(o).out, err |-> e]

RECURSIVE ParseLoop(_, _, _, _, _)
ParseLoop(av, g, a, o, e) ==
    LET r  == getopt_long(av, g)
        e2 == e \o r.msg
    IN  CASE r.c = EndOfOptions ->
               LET rest  == Remaining(av, r.g)
                   count == Len(rest)
               IN  [rc   |-> 0,
                    args |-> [a EXCEPT !.item_count = count,
                                       !.items = IF count > 0 THEN rest ELSE <<>>],
                    out  |-> IF a.debug >= 9
                             THEN Append(o, <<"Positional argument count", count>>)
                             ELSE o,
                    err  |-> e2]
          [] r.c = "h" -> [rc |-> Help(o).rc, args |-> a, out |-> Help(o).out, err |-> e2]
          [] r.c = "v" -> [rc |-> Version(o).rc, args |-> a, out |-> Version(o).out,
                           err |-> e2]
          [] r.c = "m" -> ParseLoop(av, r.g, [a EXCEPT !.monitor = TRUE], o, e2)
          [] r.c = "l" -> ParseLoop(av, r.g, [a EXCEPT !.list = TRUE], o, e2)
          [] r.c = "s" -> ParseLoop(av, r.g, [a EXCEPT !.serial = r.optarg], o, e2)
          [] r.c = "d" ->
               LET n == atoi(r.optarg.str) IN
               ParseLoop(av, r.g, [a EXCEPT !.debug = n],
                         IF n >= 9 THEN Append(o, <<"Option -d with value", n>>) ELSE o,
                         e2)
          [] OTHER -> InvalidOption(a, o, e2)

\* the scan state of the first getopt_long call: optind = 1, no cluster open
FirstCall == [optind |-> 1, nextchar |-> 0, nonopts |-> <<>>]

----------------------------------------------------------------------------
(* Argument vectors explored. Each token is a C string.                    *)

Tokens ==
    { <<"-","h">>, <<"-","-","h","e","l","p">>,
      <<"-","v">>, <<"-","-","v","e","r","s","i","o","n">>,
      <<"-","m">>, <<"-","-","m","o","n","i","t","o","r">>,
      <<"-","l">>, <<"-","-","l","i","s","t">>,
      <<"-","d">>, <<"-","s">>,
      <<"-","-">>, <<"-","5">>,
      <<"9">>, <<"1","a">>, <<"a">> }

ArgVectors == UNION { [1..n -> Tokens] : n \in 0..MaxArgs }

----------------------------------------------------------------------------
(* State machine *)

\* Program::Program() and the static initialisers
Init ==
    /\ argv \in ArgVectors
    /\ pc = "ParseArguments"
    /\ m_args = [monitor |-> FALSE, list |-> FALSE, debug |-> 0, serial |-> NULL,
                 item_count |-> 0, items |-> <<>>]
    /\ g_debug = 0
    /\ quit_flag = 0
    /\ handler = FALSE
    /\ rc = 0
    /\ i = 0
    /\ session = "none"
    /\ hist = <<>>
    /\ out = <<>>
    /\ err = <<>>

\* a handler that toggles the flag instead of storing the signal number
SignalHandler_toggle(signal) == quit_flag' = IF quit_flag = 0 THEN signal ELSE 0

\* Program::SignalHandler(int signal)
SignalHandler(signal) == quit_flag' = signal

\* A SIGINT arrives. With SignalHandler registered it runs (glibc's signal()
\* keeps the handler installed across deliveries); before signal() has been
\* called the default disposition ends the process at once. quit_flag is a
\* plain int: the main flow re-reads it after every Device call, so a read
\* sees either 0 or the value the handler stored.
Interrupt ==
    /\ pc \notin {"exit", "killed"}
    /\ \/ /\ handler
          /\ SignalHandler(SIGINT)
          /\ UNCHANGED pc
       \/ /\ ~handler
          /\ pc' = "killed"
          /\ UNCHANGED quit_flag
    /\ UNCHANGED <<argv, m_args, g_debug, handler, rc, i, session,
                   hist, out, err>>

\* Main: rc = ParseArguments(argc, argv); if (rc) return rc;
ParseArguments ==
    /\ pc = "ParseArguments"
    /\ LET r == ParseLoop(argv, FirstCall, m_args, out, err) IN
         /\ m_args' = r.args
         /\ out' = r.out
         /\ err' = r.err
         /\ rc' = r.rc
         /\ pc' = IF r.rc # 0 THEN "exit" ELSE "Init"
    /\ UNCHANGED <<argv, g_debug, quit_flag, handler, i, session, hist>>

\* Init() without the signal() call
Init_no_signal ==
    /\ pc = "Init"
    /\ g_debug' = m_args.debug
    /\ err' = IF m_args.debug >= 9 THEN Append(err, <<"Program::Init">>) ELSE err
    /\ pc' = "Open"
    /\ UNCHANGED <<argv, m_args, quit_flag, handler, rc, i, session, hist, out>>

\* Main: g_debug = m_args.debug; Init() up to and including signal()
Init_signal ==
    /\ pc = "Init"
    /\ g_debug' = m_args.debug
    /\ err' = IF m_args.debug >= 9 THEN Append(err, <<"Program::Init">>) ELSE err
    /\ handler' = TRUE
    /\ pc' = "Open"
    /\ UNCHANGED <<argv, m_args, quit_flag, rc, i, session, hist, out>>

\* Main going on to Run() although Init() failed
Init_Open_unchecked ==
    /\ pc = "Open"
    /\ \E ok \in BOOLEAN :
         /\ hist' = Append(hist, <<"Open", m_args.serial, ok>>)
         /\ IF ok
            THEN /\ session' = "open"
                 /\ UNCHANGED <<rc, err>>
            ELSE /\ err' = err \o << <<"Failed to open UT181A DMM">> >>
                 /\ rc' = -1
                 /\ UNCHANGED session
         /\ pc' = "Run"
    /\ UNCHANGED <<argv, m_args, g_debug, quit_flag, handler, i, out>>

\* Init(): m_dmm.Open(m_args.serial) and the failure branch; if (rc) return rc;
Init_Open ==
    /\ pc = "Open"
    /\ \E ok \in BOOLEAN :
         /\ hist' = Append(hist, <<"Open", m_args.serial, ok>>)
         /\ IF ok
            THEN /\ session' = "open"
                 /\ pc' = "Run"
                 /\ UNCHANGED <<rc, err>>
            ELSE /\ err' = err \o << <<"Failed to open UT181A DMM">> >>
                             \o (IF m_args.serial # NULL
                                 THEN << <<"Is the serial string correct?",
                                           m_args.serial.str>> >>
                                 ELSE <<>>)
                 /\ rc' = -1
                 /\ pc' = "exit"
                 /\ UNCHANGED session
    /\ UNCHANGED <<argv, m_args, g_debug, quit_flag, handler, i, out>>

\* Run(): the trace line every branch starts with
RunTrace(e) == IF g_debug >= 9 THEN Append(e, <<"Program::Run">>) ELSE e

\* Run(): if (m_args.monitor) ... m_dmm.Monitor(quit_flag) is entered
Run_Monitor ==
    /\ pc = "Run"
    /\ m_args.monitor
    /\ err' = Append(RunTrace(err), <<"Ctrl-C to quit the monitor">>)
    /\ hist' = Append(hist, <<"Monitor", quit_flag>>)
    /\ pc' = "in_Monitor"
    /\ UNCHANGED <<argv, m_args, g_debug, quit_flag, handler, rc, i,
                   session, out>>

\* Monitor's result dropped, as in the list branch: return 0;
MonitorStatus_ignored(b) == 0

\* Run(): return b ? 0 : -1;
MonitorStatus(b) == IF b THEN 0 ELSE -1

\* Device::Monitor returns b: it blocks until the token is set or the
\* transport fails. Run(): return b ? 0 : -1;
Monitor_return ==
    /\ pc = "in_Monitor"
    /\ \E b \in BOOLEAN :
         /\ quit_flag # 0 \/ ~b
         /\ hist' = Append(hist, <<"return", "Monitor", b>>)
         /\ rc' = MonitorStatus(b)
    /\ pc' = "Done"
    /\ UNCHANGED <<argv, m_args, g_debug, quit_flag, handler, i, session, out, err>>

\* the list branch tested before the monitor branch
Run_List_first ==
    /\ pc = "Run"
    /\ m_args.list
    /\ err' = Append(RunTrace(err), <<"Ctrl-C to abort if it takes too long">>)
    /\ hist' = Append(hist, <<"ListRecord", quit_flag>>)
    /\ pc' = "in_ListRecord"
    /\ UNCHANGED <<argv, m_args, g_debug, quit_flag, handler, rc, i,
                   session, out>>

\* Run(): if (m_args.list) ... m_dmm.ListRecord(quit_flag) is entered
Run_List ==
    /\ pc = "Run"
    /\ ~m_args.monitor
    /\ m_args.list
    /\ err' = Append(RunTrace(err), <<"Ctrl-C to abort if it takes too long">>)
    /\ hist' = Append(hist, <<"ListRecord", quit_flag>>)
    /\ pc' = "in_ListRecord"
    /\ UNCHANGED <<argv, m_args, g_debug, quit_flag, handler, rc, i,
                   session, out>>

\* Device::ListRecord returns (enumeration complete, token set, or a failure
\* inside the Device layer); its result b is discarded. return 0;
List_return ==
    /\ pc = "in_ListRecord"
    /\ \E b \in BOOLEAN : hist' = Append(hist, <<"return", "ListRecord", b>>)
    /\ rc' = 0
    /\ pc' = "Done"
    /\ UNCHANGED <<argv, m_args, g_debug, quit_flag, handler, i, session, out, err>>

\* Run(): if (m_args.item_count > 0) ... for (int i = 0; ...
Run_Receive ==
    /\ pc = "Run"
    /\ ~m_args.monitor
    /\ ~m_args.list
    /\ m_args.item_count > 0
    /\ err' = Append(RunTrace(err), <<"Ctrl-C to abort the long operation">>)
    /\ i' = 0
    /\ pc' = "loop"
    /\ UNCHANGED <<argv, m_args, g_debug, quit_flag, handler, rc,
                   session, hist, out>>

\* the loop head without the test of quit_flag
Loop_check_no_break ==
    /\ pc = "loop"
    /\ IF i < m_args.item_count
       THEN /\ hist' = Append(hist, <<"read quit_flag", quit_flag>>)
            /\ pc' = "call_ReceiveRecord"
            /\ UNCHANGED rc
       ELSE rc' = 0 /\ pc' = "Done" /\ UNCHANGED hist
    /\ UNCHANGED <<argv, m_args, g_debug, quit_flag, handler, i, session,
                   out, err>>

\* the break out of the receive loop reported as a failure
Loop_check_break_fails ==
    /\ pc = "loop"
    /\ IF i < m_args.item_count
         THEN /\ hist' = Append(hist, <<"read quit_flag", quit_flag>>)
              /\ IF quit_flag # 0
                   THEN pc' = "Done" /\ rc' = -1
                   ELSE pc' = "call_ReceiveRecord" /\ rc' = rc
         ELSE /\ pc' = "Done"
              /\ rc' = 0
              /\ hist' = hist
    /\ UNCHANGED <<argv, m_args, g_debug, quit_flag, handler, i, session, out, err>>

\* a loop that is never left at the end of the targets
Loop_check_spins ==
    /\ pc = "loop"
    /\ IF i < m_args.item_count
       THEN /\ hist' = Append(hist, <<"read quit_flag", quit_flag>>)
            /\ IF quit_flag # 0
               THEN rc' = 0 /\ pc' = "Done"
               ELSE pc' = "call_ReceiveRecord" /\ UNCHANGED rc
       ELSE UNCHANGED <<rc, pc, hist>>
    /\ UNCHANGED <<argv, m_args, g_debug, quit_flag, handler, i, session,
                   out, err>>

\* the loop head: i < m_args.item_count; if (quit_flag) break; after the loop return 0;
Loop_check ==
    /\ pc = "loop"
    /\ IF i < m_args.item_count
       THEN /\ hist' = Append(hist, <<"read quit_flag", quit_flag>>)
            /\ IF quit_flag # 0
               THEN rc' = 0 /\ pc' = "Done"
               ELSE pc' = "call_ReceiveRecord" /\ UNCHANGED rc
       ELSE rc' = 0 /\ pc' = "Done" /\ UNCHANGED hist
    /\ UNCHANGED <<argv, m_args, g_debug, quit_flag, handler, i, session,
                   out, err>>

\* ReceiveRecord handed the loop index instead of the parsed target
Receive_call_by_position ==
    /\ pc = "call_ReceiveRecord"
    /\ hist' = Append(hist, <<"ReceiveRecord", i, quit_flag>>)
    /\ pc' = "in_ReceiveRecord"
    /\ UNCHANGED <<argv, m_args, g_debug, quit_flag, handler, rc, i,
                   session, out, err>>

\* int index = atoi(m_args.items[i]); m_dmm.ReceiveRecord(index, quit_flag) is entered
Receive_call ==
    /\ pc = "call_ReceiveRecord"
    /\ LET index == atoi(m_args.items[i + 1]) IN
         hist' = Append(hist, <<"ReceiveRecord", index, quit_flag>>)
    /\ pc' = "in_ReceiveRecord"
    /\ UNCHANGED <<argv, m_args, g_debug, quit_flag, handler, rc, i,
                   session, out, err>>

\* Device::ReceiveRecord returns, its result b discarded; i++
Receive_return ==
    /\ pc = "in_ReceiveRecord"
    /\ \E b \in BOOLEAN : hist' = Append(hist, <<"return", "ReceiveRecord", b>>)
    /\ i' = i + 1
    /\ pc' = "loop"
    /\ UNCHANGED <<argv, m_args, g_debug, quit_flag, handler, rc, session, out, err>>

\* the fall-through testing g_debug >= 0
Run_Idle_never_help ==
    /\ pc = "Run"
    /\ ~m_args.monitor
    /\ ~m_args.list
    /\ ~(m_args.item_count > 0)
    /\ err' = RunTrace(err)
    /\ IF g_debug >= 0
       THEN rc' = 0 /\ UNCHANGED out
       ELSE rc' = Help(out).rc /\ out' = Help(out).out
    /\ pc' = "Done"
    /\ UNCHANGED <<argv, m_args, g_debug, quit_flag, handler, i, session,
                   hist>>

\* the fall-through without the test of g_debug
Run_Idle_always_help ==
    /\ pc = "Run"
    /\ ~m_args.monitor
    /\ ~m_args.list
    /\ ~(m_args.item_count > 0)
    /\ err' = RunTrace(err)
    /\ rc' = Help(out).rc
    /\ out' = Help(out).out
    /\ pc' = "Done"
    /\ UNCHANGED <<argv, m_args, g_debug, quit_flag, handler, i, session,
                   hist>>

\* Run(): return g_debug > 0 ? 0 : Help();
Run_Idle ==
    /\ pc = "Run"
    /\ ~m_args.monitor
    /\ ~m_args.list
    /\ ~(m_args.item_count > 0)
    /\ err' = RunTrace(err)
    /\ IF g_debug > 0
       THEN rc' = 0 /\ UNCHANGED out
       ELSE rc' = Help(out).rc /\ out' = Help(out).out
    /\ pc' = "Done"
    /\ UNCHANGED <<argv, m_args, g_debug, quit_flag, handler, i, session,
                   hist>>

\* Main returning without the call of Done()
Done_skipped ==
    /\ pc = "Done"
    /\ pc' = "exit"
    /\ UNCHANGED <<argv, m_args, g_debug, quit_flag, handler, rc, i, session, hist, out,
                   err>>

\* Main: Done(); return rc;
Done ==
    /\ pc = "Done"
    /\ err' = IF g_debug >= 9 THEN Append(err, <<"Program::Done">>) ELSE err
    /\ hist' = Append(hist, <<"Close">>)
    /\ session' = "closed"
    /\ pc' = "exit"
    /\ UNCHANGED <<argv, m_args, g_debug, quit_flag, handler, rc, i, out>>

Next ==
    \/ Interrupt
    \/ ParseArguments
    \/ Init_signal
    \/ Init_Open
    \/ Run_Monitor
    \/ Monitor_return
    \/ Run_List
    \/ List_return
    \/ Run_Receive
    \/ Loop_check
    \/ Receive_call
    \/ Receive_return
    \/ Run_Idle
    \/ Done

Spec == Init /\ [][Next]_vars

\* ParseArguments returns to Main: the ParseArguments step as pc shows it (the
\* only step of Next that takes pc from "ParseArguments" to "Init" or "exit").
ParseReturns == pc = "ParseArguments" /\ pc' \in {"Init", "exit"}

\* The steps of the main flow after the parse: everything but the arrival of
\* a signal. The process is scheduled, so its next statement is eventually
\* executed, and every Device call that has been entered is taken to return.
MainFlow ==
    \/ Init_signal
    \/ Init_Open
    \/ Run_Monitor
    \/ Monitor_return
    \/ Run_List
    \/ List_return
    \/ Run_Receive
    \/ Loop_check
    \/ Receive_call
    \/ Receive_return
    \/ Run_Idle
    \/ Done

LiveSpec == Spec /\ WF_pc(ParseReturns) /\ WF_vars(MainFlow)

----------------------------------------------------------------------------
(* Vocabulary of the properties *)

HelpFlags == { <<"-","h">>, <<"-","-","h","e","l","p">> }
VersionFlags == { <<"-","v">>, <<"-","-","v","e","r","s","i","o","n">> }
ShortModeFlags == { <<"-","m">>, <<"-","l">> }
ArgumentOptions == { <<"-","d">>, <<"-","s">>, <<"-","-","d","e","b","u","g">>,
                     <<"-","-","s","e","r","i","a","l">> }

HasHelp(av) == \E k \in 1..Len(av) : av[k] \in HelpFlags
HasVersion(av) == \E k \in 1..Len(av) : av[k] \in VersionFlags

\* every element of av before position k is a -m or -l flag, or a -d/-s
\* (--debug/--serial) option followed by its argument
RECURSIVE OptionsUpTo(_, _, _)
OptionsUpTo(av, j, k) ==
    IF j = k THEN TRUE
    ELSE IF j > k THEN FALSE
    ELSE IF av[j] \in ShortModeFlags THEN OptionsUpTo(av, j + 1, k)
    ELSE IF av[j] \in ArgumentOptions THEN OptionsUpTo(av, j + 2, k)
    ELSE FALSE

\* positions in hist of the events of one kind
Events(kind) == {k \in 1..Len(hist) : hist[k][1] = kind}
Returns(op) == {k \in Events("return") : hist[k][2] = op}
OpenSucceeded == \E k \in Events("Open") : hist[k][3]
OpenFailed == \E k \in Events("Open") : ~hist[k][3]
ModeCalls == Events("Monitor") \cup Events("ListRecord") \cup Events("ReceiveRecord")
Printed(stream, line) == \E k \in 1..Len(stream) : stream[k] = line

----------------------------------------------------------------------------
\* C1 (as claimed): whenever argv contains -h or --help at any position, Main
\* returns 1 and Open is never called.
C1_HelpAnywhere ==
    HasHelp(argv) =>
        /\ Events("Open") = {}
        /\ pc = "exit" => rc = 1

\* C1 (amended): when argv contains -h or --help and every argument before it
\* is a -m or -l flag or a -d/-s option with its argument, Main prints the help
\* text, returns 1 and Open is never called.
C1_HelpFirst ==
    (\E k \in 1..Len(argv) : argv[k] \in HelpFlags /\ OptionsUpTo(argv, 1, k)) =>
        /\ Events("Open") = {}
        /\ pc \notin {"ParseArguments", "killed"} =>
              pc = "exit" /\ rc = 1 /\ Printed(out, help_msg)

C1_Witness ==
    /\ pc = "exit"
    /\ argv = << <<"-","s">>, <<"-","v">>, <<"-","-","h","e","l","p">> >>
    /\ rc = 1
    /\ m_args.serial = Ptr(<<"-","v">>)

----------------------------------------------------------------------------
\* C2 (as claimed): whenever argv contains -v or --version and no help flag,
\* Main returns 2 and Open is never called.
C2_VersionAnywhere ==
    (HasVersion(argv) /\ ~HasHelp(argv)) =>
        /\ Events("Open") = {}
        /\ pc = "exit" => rc = 2

\* C2 (amended): when argv contains no help flag, contains -v or --version and
\* every argument before it is a -m or -l flag or a -d/-s option with its
\* argument, Main prints the version, returns 2 and Open is never called.
C2_VersionFirst ==
    (/\ ~HasHelp(argv)
     /\ \E k \in 1..Len(argv) : argv[k] \in VersionFlags /\ OptionsUpTo(argv, 1, k)) =>
        /\ Events("Open") = {}
        /\ pc \notin {"ParseArguments", "killed"} =>
              pc = "exit" /\ rc = 2 /\ Printed(out, version_info)

C2_Witness ==
    /\ pc = "exit"
    /\ argv = << <<"-","m">>, <<"-","-","v","e","r","s","i","o","n">>, <<"-","5">> >>
    /\ rc = 2
    /\ m_args.monitor

----------------------------------------------------------------------------
\* C3: after an Open that returned true, Close is called exactly once, after
\* every Device call of the mode has returned and before Main returns, in
\* every mode and for every outcome; without a successful Open, Close is never
\* called. No session is open once the process has ended.
C3_CloseExactlyOnce ==
    /\ Cardinality(Events("Close")) <= 1
    /\ ~OpenSucceeded => Events("Close") = {}
    /\ Events("Close") # {} =>
          /\ pc = "exit"
          /\ hist[Len(hist)][1] = "Close"
          /\ Cardinality(ModeCalls) = Cardinality(Events("return"))
    /\ (pc = "exit" /\ OpenSucceeded) => Cardinality(Events("Close")) = 1
    /\ pc \in {"exit", "killed"} => session # "open"

\* a Monitor run that was interrupted, failed, and was still closed
C3_Witness ==
    /\ pc = "exit"
    /\ quit_flag # 0
    /\ rc = -1
    /\ Returns("Monitor") # {}
    /\ session = "closed"
    /\ hist[Len(hist)][1] = "Close"

----------------------------------------------------------------------------
\* the ReceiveRecord calls made so far, in order, as positions in hist
ReceiveCalls == Events("ReceiveRecord")
NthReceive(n) == CHOOSE k \in ReceiveCalls : Cardinality({j \in ReceiveCalls : j <= k}) = n

\* C4: in a Receive run the ReceiveRecord calls are a prefix of the targets in
\* their given order, each target at most once; every call follows a read of
\* the token that found it unset, and nothing is started once a read found it
\* set; a call in progress when the token is set still runs to its return.
C4_ReceivePrefix ==
    LET n == Cardinality(ReceiveCalls) IN
    /\ n <= m_args.item_count
    /\ \A k \in 1..n : hist[NthReceive(k)][2] = atoi(m_args.items[k])
    /\ \A k \in ReceiveCalls : hist[k - 1] = <<"read quit_flag", 0>>
    /\ \A k \in Events("read quit_flag") :
          hist[k][2] # 0 => \A j \in (k + 1)..Len(hist) : hist[j][1] = "Close"
    /\ Cardinality(Returns("ReceiveRecord")) = n - (IF pc = "in_ReceiveRecord" THEN 1 ELSE 0)
    /\ pc = "in_ReceiveRecord" => hist[Len(hist)][1] = "ReceiveRecord"

\* three targets, the token set while the second was in progress: the second
\* call returned, the third was never started
C4_Witness ==
    /\ pc = "exit"
    /\ m_args.items = << <<"9">>, <<"1","a">>, <<"a">> >>
    /\ Cardinality(ReceiveCalls) = 2
    /\ hist[NthReceive(2)] = <<"ReceiveRecord", 1, 0>>
    /\ Cardinality(Returns("ReceiveRecord")) = 2
    /\ quit_flag # 0

----------------------------------------------------------------------------
\* C5: the mode is chosen by the fixed precedence monitor > list > targets >
\* idle: only the first matching mode body ever runs, and exactly one has run
\* when Run has returned.
C5_ModePrecedence ==
    LET mon  == Events("Monitor")
        lst  == Events("ListRecord")
        rcv  == Events("ReceiveRecord")
        ran  == pc \in {"Done", "exit"} /\ OpenSucceeded
    IN  /\ Cardinality(mon) <= 1
        /\ Cardinality(lst) <= 1
        /\ m_args.monitor =>
              lst = {} /\ rcv = {} /\ (ran => Cardinality(mon) = 1)
        /\ (~m_args.monitor /\ m_args.list) =>
              mon = {} /\ rcv = {} /\ (ran => Cardinality(lst) = 1)
        /\ (~m_args.monitor /\ ~m_args.list /\ m_args.item_count > 0) =>
              mon = {} /\ lst = {} /\ (ran => Events("read quit_flag") # {})
        /\ (~m_args.monitor /\ ~m_args.list /\ m_args.item_count = 0) =>
              mon = {} /\ lst = {} /\ rcv = {}

\* monitor, list and a target together: Monitor ran, nothing else
C5_Witness ==
    /\ pc = "exit"
    /\ argv = << <<"-","m">>, <<"-","l">>, <<"9">> >>
    /\ m_args.monitor /\ m_args.list /\ m_args.item_count = 1
    /\ Cardinality(Events("Monitor")) = 1
    /\ session = "closed"

----------------------------------------------------------------------------
\* C6: when Open returns false the run ends with a non-zero status, no mode
\* body runs, Open is not called again, and stderr names the serial filter
\* whenever one was given.
C6_OpenFailure ==
    OpenFailed =>
        /\ pc = "exit"
        /\ rc # 0
        /\ ModeCalls = {}
        /\ Cardinality(Events("Open")) = 1
        /\ Printed(err, <<"Failed to open UT181A DMM">>)
        /\ m_args.serial # NULL =>
              Printed(err, <<"Is the serial string correct?", m_args.serial.str>>)

C6_Witness ==
    /\ OpenFailed
    /\ m_args.serial = Ptr(<<"a">>)
    /\ m_args.monitor
    /\ rc = -1

----------------------------------------------------------------------------
\* C7 (as claimed): an interrupt delivered at any point from process start on
\* never terminates the process immediately.
C7_NeverKilled == pc # "killed"

\* C7 (amended): the handler is installed by Init, after argument parsing and
\* before Open is called. From then on an interrupt sets the token and never
\* terminates the process, so a run that opened a session still reaches
\* teardown; only before that point (no Device call made, no session) does an
\* interrupt end the process at once.
C7_HandlerFromInit ==
    /\ [](/\ pc = "ParseArguments" => ~handler
          /\ hist # <<>> => handler
          /\ quit_flag # 0 => handler
          /\ pc = "killed" => ~handler /\ hist = <<>> /\ session = "none"
          /\ (pc = "exit" /\ OpenSucceeded) => Events("Close") # {})
    /\ [][handler => handler' /\ pc' # "killed"]_vars
    /\ [][(Interrupt /\ handler) => (quit_flag' = SIGINT /\ pc' = pc)]_vars

\* interrupted inside ReceiveRecord, the run went on to Close and returned 0
C7_Witness ==
    /\ pc = "exit"
    /\ quit_flag = SIGINT
    /\ ReceiveCalls # {}
    /\ hist[NthReceive(1)][3] = 0
    /\ Events("read quit_flag") # {}
    /\ session = "closed"
    /\ rc = 0

----------------------------------------------------------------------------
\* C8: quit_flag starts at 0; only the signal handler changes it; every run
\* of the handler leaves it non-zero; no step of the main flow writes it; so
\* once set it stays set.
C8_TokenMonotonic ==
    /\ quit_flag = 0
    /\ [][quit_flag # 0 => quit_flag' # 0]_vars
    /\ [][quit_flag' # quit_flag => (Interrupt /\ handler)]_vars
    /\ [][(Interrupt /\ handler) => quit_flag' # 0]_vars
    /\ [][(ParseArguments \/ Init_signal \/ Init_Open \/ Run_Monitor \/ Monitor_return
           \/ Run_List \/ List_return \/ Run_Receive \/ Loop_check \/ Receive_call
           \/ Receive_return \/ Run_Idle \/ Done) => quit_flag' = quit_flag]_vars

\* the flag was set before the first target's turn and is still set at exit
C8_Witness ==
    /\ pc = "exit"
    /\ quit_flag # 0
    /\ m_args.item_count = 2
    /\ Events("read quit_flag") # {}
    /\ ReceiveCalls = {}
    /\ session = "closed"

----------------------------------------------------------------------------
\* argv with each --monitor replaced by -m and each --list by -l
ShortForm(av) ==
    [k \in 1..Len(av) |->
        IF av[k] = <<"-","-","m","o","n","i","t","o","r">> THEN <<"-","m">>
        ELSE IF av[k] = <<"-","-","l","i","s","t">> THEN <<"-","l">>
        ELSE av[k]]

\* Program::Program()'s m_args
NoOptions == [monitor |-> FALSE, list |-> FALSE, debug |-> 0, serial |-> NULL,
              item_count |-> 0, items |-> <<>>]

\* C9: the long and the short form of a mode flag are equivalent: when
\* ParseArguments has returned, its status and the options it left are those
\* it gives for the same argv with --monitor written -m and --list written -l
\* (argument vectors in which the mode flags are not the argument of -d or -s
\* and do not follow --).
C9_LongShortEquivalent ==
    (/\ pc \notin {"ParseArguments", "killed"}
     /\ \A k \in 1..Len(argv) : argv[k] \notin {<<"-","d">>, <<"-","s">>, <<"-","-">>}) =>
        LET short == ParseLoop(ShortForm(argv), FirstCall, NoOptions, <<>>, <<>>) IN
        /\ m_args = short.args
        /\ (rc # 0 /\ hist = <<>>) <=> (short.rc # 0)

----------------------------------------------------------------------------
\* ParseArguments returned 0 and left no mode flag, no target, debug level 0
IdleOptions ==
    /\ handler
    /\ ~m_args.monitor
    /\ ~m_args.list
    /\ m_args.item_count = 0
    /\ m_args.debug = 0

\* C10 (as claimed): with no mode flags, no targets and debug level 0 the run
\* ends with the help text and exit status 1.
C10_IdleShowsHelp ==
    (pc = "exit" /\ IdleOptions) => (rc = 1 /\ Printed(out, help_msg))

\* C10 (amended): with no mode flags, no targets and debug level 0, the run
\* first opens the session; if Open succeeds it ends with the help text, the
\* session closed and exit status 1; if Open fails it ends with exit status -1
\* and no help text.
C10_IdleShowsHelpIfOpened ==
    (pc = "exit" /\ IdleOptions) =>
        /\ Cardinality(Events("Open")) = 1
        /\ OpenSucceeded => rc = 1 /\ Printed(out, help_msg) /\ session = "closed"
        /\ OpenFailed => rc = -1 /\ ~Printed(out, help_msg)

\* "-d a" gives debug level 0; the session opened, help was shown
C10_Witness ==
    /\ pc = "exit"
    /\ argv = << <<"-","d">>, <<"a">> >>
    /\ IdleOptions
    /\ OpenSucceeded
    /\ rc = 1
    /\ out = <<help_msg>>

----------------------------------------------------------------------------
\* ParseArguments returned 0 and left no mode flag, no target and a positive
\* debug level
IdleDebugOptions ==
    /\ handler
    /\ ~m_args.monitor
    /\ ~m_args.list
    /\ m_args.item_count = 0
    /\ m_args.debug > 0

\* C11 (as claimed): with no mode flags, no targets and any debug level > 0
\* the run ends with exit status 0 and nothing printed on either stream.
C11_IdleDebugSilent ==
    (pc = "exit" /\ IdleDebugOptions) => (rc = 0 /\ out = <<>> /\ err = <<>>)

\* C11 (amended): with no mode flags, no targets and a debug level > 0 the
\* session is opened first. If Open succeeds the run ends with exit status 0,
\* the session closed and no help text; with a level from 1 to 8 nothing is
\* printed on stderr, and nothing on stdout but the trace line of an earlier
\* -d whose value was 9 or more. With a level of 9 or more the trace lines of
\* ParseArguments, Init, Run and Done are printed. If Open fails the run ends
\* with exit status -1.
C11_IdleDebugQuietBelow9 ==
    (pc = "exit" /\ IdleDebugOptions) =>
        /\ OpenSucceeded =>
              /\ rc = 0
              /\ session = "closed"
              /\ ~Printed(out, help_msg)
              /\ m_args.debug < 9 =>
                    /\ err = <<>>
                    /\ \A k \in 1..Len(out) :
                          out[k][1] = "Option -d with value" /\ out[k][2] >= 9
              /\ m_args.debug >= 9 =>
                    /\ Printed(out, <<"Option -d with value", m_args.debug>>)
                    /\ Printed(out, <<"Positional argument count", 0>>)
                    /\ err = << <<"Program::Init">>, <<"Program::Run">>, <<"Program::Done">> >>
        /\ OpenFailed => rc = -1 /\ Printed(err, <<"Failed to open UT181A DMM">>)

\* "-d 1a" gives level 1: opened, closed, status 0, nothing printed
C11_Witness ==
    /\ pc = "exit"
    /\ argv = << <<"-","d">>, <<"1","a">> >>
    /\ IdleDebugOptions
    /\ OpenSucceeded
    /\ rc = 0
    /\ out = <<>>
    /\ err = <<>>

----------------------------------------------------------------------------
\* a non-empty string of decimal digits, and the number it writes
IsNonNegativeInteger(s) == Len(s) > 0 /\ \A k \in 1..Len(s) : IsDigit(s[k])

RECURSIVE Decimal(_)
Decimal(s) ==
    IF s = <<>> THEN 0
    ELSE 10 * Decimal(SubSeq(s, 1, Len(s) - 1)) + DigitVal[s[Len(s)]]

\* the number a string starts with: leading white space, an optional sign,
\* then its longest run of decimal digits; 0 when there is no digit there
LeadingInteger(s) ==
    LET blanks == Cardinality({n \in 1..Len(s) : \A k \in 1..n : IsSpace(s[k])})
        t      == SubSeq(s, blanks + 1, Len(s))
        signed == t # <<>> /\ t[1] \in {"-", "+"}
        body   == IF signed THEN Tail(t) ELSE t
        run    == Cardinality({n \in 1..Len(body) : \A k \in 1..n : IsDigit(body[k])})
        value  == Decimal(SubSeq(body, 1, run))
    IN  IF signed /\ t[1] = "-" THEN 0 - value ELSE value

\* the Receive loop ran to its end without finding the token set
ReceiveRanThrough ==
    /\ pc = "exit"
    /\ OpenSucceeded
    /\ ~m_args.monitor /\ ~m_args.list /\ m_args.item_count > 0
    /\ \A k \in Events("read quit_flag") : hist[k][2] = 0

\* C12 (as claimed): a target that is not a valid non-negative integer is
\* handed to ReceiveRecord as 0, a valid one as its own value, and the run
\* continues with the remaining targets.
C12_InvalidTargetIsZero ==
    /\ \A k \in 1..Cardinality(ReceiveCalls) :
          hist[NthReceive(k)][2] = IF IsNonNegativeInteger(m_args.items[k])
                                   THEN Decimal(m_args.items[k]) ELSE 0
    /\ ReceiveRanThrough => Cardinality(ReceiveCalls) = m_args.item_count

\* C12 (amended): every target is handed to ReceiveRecord as the number it
\* starts with (optional white space, optional sign, decimal digits): a valid
\* non-negative integer as its own value, a string that starts with no number
\* ("abc", "") as 0, but "12abc" as 12 and "-5" as -5; in every case the run
\* continues with the remaining targets.
C12_TargetIsLeadingInteger ==
    /\ \A k \in 1..Cardinality(ReceiveCalls) :
          hist[NthReceive(k)][2] = LeadingInteger(m_args.items[k])
    /\ ReceiveRanThrough => Cardinality(ReceiveCalls) = m_args.item_count

\* targets "-5" and "1a": records -5 and 1 were requested, in that order
C12_Witness ==
    /\ ReceiveRanThrough
    /\ argv = << <<"-","-">>, <<"-","5">>, <<"1","a">> >>
    /\ Cardinality(ReceiveCalls) = 2
    /\ hist[NthReceive(1)][2] = -5
    /\ hist[NthReceive(2)][2] = 1

----------------------------------------------------------------------------
\* getopt_long reported an unknown or malformed option on stderr
GetoptDiagnostics ==
    {"invalid option", "option requires an argument", "unrecognized option",
     "option is ambiguous", "option doesn't allow an argument"}
OptionRejected == \E k \in 1..Len(err) : err[k][1] \in GetoptDiagnostics

\* C13: when the parser meets an unknown or malformed flag (a flag without
\* its required argument included), the help text is printed, Main returns a
\* status that is not 0, 1 or 2, Open is never called and no mode body runs.
C13_ArgumentError ==
    OptionRejected =>
        /\ pc = "exit"
        /\ rc \notin {0, 1, 2}
        /\ Printed(out, help_msg)
        /\ Events("Open") = {}
        /\ ModeCalls = {}
        /\ session = "none"

\* "-m -d": the monitor flag was accepted, then -d found without its argument
C13_Witness ==
    /\ argv = << <<"-","m">>, <<"-","d">> >>
    /\ pc = "exit"
    /\ m_args.monitor
    /\ err = << <<"option requires an argument", "d">> >>
    /\ rc = -1

----------------------------------------------------------------------------
MonitorReturned(b) == \E k \in Returns("Monitor") : hist[k][3] = b
Closed == Events("Close") # {}

\* C14 (as claimed): a negative exit status implies that no mode body
\* (Monitor, ListRecord, ReceiveRecord) was executed in that run.
C14_NegativeMeansNoMode ==
    (pc = "exit" /\ rc < 0) => ModeCalls = {}

\* C14 (amended): the exit status identifies the outcome class. Status 0 only
\* after a successful Open, a completed mode or a debug-suppressed idle run,
\* and Close; status 1 only with the help text shown; status 2 only with the
\* version text shown; the negative status -1 only for an invalid-argument
\* failure or a session-open failure, both without any mode body, or for a
\* Monitor call that returned false.
C14_StatusClasses ==
    pc = "exit" =>
        /\ rc \in {0, 1, 2, -1}
        /\ rc = 0 =>
             /\ OpenSucceeded
             /\ Closed
             /\ \/ MonitorReturned(TRUE)
                \/ Returns("ListRecord") # {}
                \/ m_args.item_count > 0 /\ ~m_args.monitor /\ ~m_args.list
                \/ /\ ~m_args.monitor /\ ~m_args.list
                   /\ m_args.item_count = 0 /\ g_debug > 0
        /\ rc = 1 => Printed(out, help_msg)
        /\ rc = 2 => Printed(out, version_info)
        /\ rc = -1 =>
             \/ OptionRejected /\ ModeCalls = {} /\ Events("Open") = {}
             \/ OpenFailed /\ ModeCalls = {}
             \/ MonitorReturned(FALSE)

\* Monitor ran and returned false: a negative status after a mode body
C14_Witness ==
    /\ pc = "exit"
    /\ rc = -1
    /\ OpenSucceeded
    /\ Events("Monitor") # {}
    /\ MonitorReturned(FALSE)
    /\ ~OptionRejected

----------------------------------------------------------------------------
\* C15: in Monitor mode, after a successful Open, the exit status is 0 if and
\* only if Device Monitor returned true (also when it returned because the
\* token was set) and non-zero if it returned false; Close is called in both
\* cases.
C15_MonitorRelaysResult ==
    (pc = "exit" /\ Events("Monitor") # {}) =>
        /\ OpenSucceeded
        /\ Cardinality(Returns("Monitor")) = 1
        /\ rc = 0 <=> MonitorReturned(TRUE)
        /\ MonitorReturned(FALSE) => rc # 0
        /\ Cardinality(Events("Close")) = 1
        /\ session = "closed"

\* Monitor was entered, the token was set, Monitor returned true, exit 0
C15_Witness ==
    /\ pc = "exit"
    /\ Events("Monitor") # {}
    /\ quit_flag = SIGINT
    /\ MonitorReturned(TRUE)
    /\ rc = 0
    /\ session = "closed"

----------------------------------------------------------------------------
ListOrReceive ==
    /\ OpenSucceeded
    /\ ~m_args.monitor
    /\ m_args.list \/ m_args.item_count > 0

\* C16: in List mode and in Receive mode, after a successful Open the exit
\* status is always 0 once the Device calls have returned: whether the run
\* completed, was cut short by the token (a token set before the first target
\* included, which gives no ReceiveRecord call at all), or anything else
\* happened inside the Device layer. The session is closed as well.
C16_ListReceiveAlwaysZero ==
    /\ (pc \in {"Done", "exit"} /\ ListOrReceive) => rc = 0
    /\ (pc = "exit" /\ ListOrReceive) => session = "closed"
    /\ (pc = "exit" /\ ListOrReceive /\ m_args.list) =>
           /\ Cardinality(Events("ListRecord")) = 1
           /\ ReceiveCalls = {}
    /\ (pc = "exit" /\ ListOrReceive /\ ~m_args.list) =>
           /\ Events("ListRecord") = {}
           /\ Cardinality(ReceiveCalls) <= m_args.item_count

\* the token was set before the first target was looked at: no ReceiveRecord
\* call, and still exit status 0
C16_Witness ==
    /\ pc = "exit"
    /\ ListOrReceive
    /\ ~m_args.list
    /\ m_args.item_count = 2
    /\ quit_flag = SIGINT
    /\ Events("read quit_flag") # {}
    /\ ReceiveCalls = {}
    /\ rc = 0

----------------------------------------------------------------------------
DebugFlags == { <<"-","d">>, <<"-","-","d","e","b","u","g">> }
\* options that take the next element of argv as their argument: -d, -s,
\* --debug, --serial, and --monitor and --list as long_options declares them
TakesArgument ==
    ArgumentOptions \cup { <<"-","-","m","o","n","i","t","o","r">>,
                           <<"-","-","l","i","s","t">> }

\* the number the last -d/--debug occurrence of av starts with, cur when there
\* is none; the scan goes from element k and ends at "--"
RECURSIVE LastDebugValue(_, _, _)
LastDebugValue(av, k, cur) ==
    IF k > Len(av) \/ av[k] = <<"-","-">> THEN cur
    ELSE IF av[k] \in DebugFlags /\ k < Len(av)
         THEN LastDebugValue(av, k + 2, LeadingInteger(av[k + 1]))
    ELSE IF av[k] \in TakesArgument THEN LastDebugValue(av, k + 2, cur)
    ELSE LastDebugValue(av, k + 1, cur)

ParseSucceeded == pc \in {"Init", "Open", "Run"}

----------------------------------------------------------------------------
InDevice == pc \in {"in_Monitor", "in_ListRecord", "in_ReceiveRecord"}

\* C18: every Device operation call (Monitor, ListRecord, ReceiveRecord)
\* happens while the session is open, strictly after an Open that returned
\* true and strictly before Close; Open is called at most once per run, so at
\* most one session is ever open, and no Device operation is called or still
\* running after Close.
C18_OperationsInsideSession ==
    /\ Cardinality(Events("Open")) <= 1
    /\ Cardinality(Events("Close")) <= 1
    /\ \A k \in ModeCalls \cup Events("return") :
          /\ \E o \in Events("Open") : o < k /\ hist[o][3]
          /\ \A c \in Events("Close") : k < c
    /\ \A c \in Events("Close") : \E o \in Events("Open") : o < c /\ hist[o][3]
    /\ InDevice => session = "open"
    /\ session = "open" <=> (OpenSucceeded /\ ~Closed)
    /\ session = "closed" => (pc = "exit" /\ Closed)

\* the second ReceiveRecord call of a run is in progress, session open
C18_Witness ==
    /\ pc = "in_ReceiveRecord"
    /\ Cardinality(ReceiveCalls) = 2
    /\ Cardinality(Returns("ReceiveRecord")) = 1
    /\ session = "open"
    /\ OpenSucceeded
    /\ ~Closed

----------------------------------------------------------------------------
TokenReads == Events("read quit_flag")
\* ReceiveRecord calls started with the token already set
LateCalls == {k \in ReceiveCalls : hist[k][3] # 0}

\* C19: in Receive mode, with the interrupt handler able to run between any
\* two steps of the main flow (between the loop's token check and the
\* ReceiveRecord call included), at most one ReceiveRecord call is started
\* after the token has been set, and the dispatcher reads the token exactly
\* once per target, directly before that target's ReceiveRecord call.
C19_BoundedCancellation ==
    /\ Cardinality(LateCalls) <= 1
    /\ \A k \in LateCalls : \A j \in ReceiveCalls : j <= k
    /\ \A k \in ReceiveCalls :
          /\ k - 1 \in TokenReads
          /\ hist[k - 1][2] = 0
    /\ \A r \in TokenReads :
          r + 1 \in ReceiveCalls \/ r + 1 \notin TokenReads
    /\ Cardinality(TokenReads) <= Cardinality(ReceiveCalls) + 1
    /\ Cardinality(TokenReads) <= m_args.item_count
    /\ \A r \in TokenReads :
          hist[r][2] # 0 => \A k \in ReceiveCalls : k < r

\* the signal arrived between the token check and the call: the second
\* ReceiveRecord call was started with the token set, and it was the last
C19_Witness ==
    /\ pc = "exit"
    /\ m_args.item_count = 3
    /\ Cardinality(ReceiveCalls) = 2
    /\ Cardinality(LateCalls) = 1
    /\ Cardinality(TokenReads) = 3
    /\ hist[NthReceive(2)][3] = SIGINT

----------------------------------------------------------------------------
Terminated == pc \in {"exit", "killed"}

\* C20: provided every Device call that is entered returns, every run
\* terminates with an exit status (or is ended by a signal that arrives before
\* the handler is installed); the Receive loop runs at most item_count
\* iterations, and at termination no session is left open.
C20_Terminates ==
    /\ [](/\ i <= m_args.item_count
          /\ Cardinality(ReceiveCalls) <= m_args.item_count
          /\ Cardinality(TokenReads) <= m_args.item_count
          /\ Terminated => session # "open"
          /\ (pc = "exit" /\ OpenSucceeded) => session = "closed"
          /\ pc = "exit" => rc \in {0, 1, 2, -1})
    /\ <>Terminated

\* a Receive run over three targets went through every iteration and ended
C20_Witness ==
    /\ pc = "exit"
    /\ m_args.item_count = 3
    /\ i = 3
    /\ Cardinality(ReceiveCalls) = 3
    /\ session = "closed"
    /\ rc = 0

====
